---- MODULE Spec2Model ----
(***************************************************************************)
(* Calculator state machine of src/script.js.                              *)
(*                                                                         *)
(* Strings are sequences of one-character strings, so that slice, length,  *)
(* startsWith, includes and concatenation are computed as the code         *)
(* computes them.  JavaScript Numbers are modelled as exact decimals       *)
(* (sign, digit sequence, scale) with NaN; digit sequences are used        *)
(* because the values (ten fractional digits and more) exceed the integer  *)
(* range of the model checker.  The binary rounding error of IEEE-754      *)
(* doubles is not modelled: sums, differences and products are exact for   *)
(* the values that MaxSteps events produce, quotients are rounded to ten   *)
(* decimals by the code itself, and only val / 100 in handlePercent can    *)
(* differ from its decimal value in the last digits that it prints.        *)
(***************************************************************************)
EXTENDS Integers, Sequences, FiniteSets, TLC

VARIABLES currentInput, previousValue, operator, justEvaluated,
          prevEl, currEl, last, steps, script

vars == <<currentInput, previousValue, operator, justEvaluated,
          prevEl, currEl, last, steps, script>>

\* ------------------------------------------------------------------ bounds

\* Number of input events in a run of Spec.
MaxSteps == 6

\* The digit keys pressed in the model (the code accepts 0-9).
Digits == {"0", "3", "5"}

\* The operator keys.
Ops == {"+", "-", "*", "/"}

\* ---------------------------------------------------------------- strings

DigitChars == <<"0", "1", "2", "3", "4", "5", "6", "7", "8", "9">>

IsDigit(c) == \E i \in 1..10 : DigitChars[i] = c

DigitVal(c) == (CHOOSE i \in 1..10 : DigitChars[i] = c) - 1

Front(s) == SubSeq(s, 1, Len(s) - 1)

\* s.slice(0, -1)
DropLast(s) == IF Len(s) = 0 THEN <<>> ELSE Front(s)

\* s.includes(c)
Includes(s, c) == \E i \in 1..Len(s) : s[i] = c

\* s.startsWith(p)
StartsWith(s, p) == Len(s) >= Len(p) /\ SubSeq(s, 1, Len(p)) = p

\* s.endsWith(c) for a one-character c
EndsWith(s, c) == Len(s) >= 1 /\ s[Len(s)] = c

\* index of the first occurrence of a character of cs in s, 0 if none
FirstOf(s, cs) ==
    IF \E i \in 1..Len(s) : s[i] \in cs
    THEN CHOOSE i \in 1..Len(s) : s[i] \in cs /\ \A j \in 1..(i - 1) : s[j] \notin cs
    ELSE 0

AllDigits(s) == \A i \in 1..Len(s) : IsDigit(s[i])

Count(s, c) == Cardinality({i \in 1..Len(s) : s[i] = c})

\* ------------------------------------------- natural numbers as digit lists

RECURSIVE Strip(_)
\* drop leading zeros; zero is the empty list
Strip(a) == IF a # <<>> /\ a[1] = 0 THEN Strip(Tail(a)) ELSE a

RECURSIVE StripTrail(_)
StripTrail(a) == IF a # <<>> /\ a[Len(a)] = 0 THEN StripTrail(Front(a)) ELSE a

RECURSIVE Zeros(_)
Zeros(n) == IF n <= 0 THEN <<>> ELSE <<0>> \o Zeros(n - 1)

\* -1, 0, 1 for a < b, a = b, a > b (a, b without leading zeros)
NatCmp(a, b) ==
    IF Len(a) # Len(b) THEN (IF Len(a) < Len(b) THEN -1 ELSE 1)
    ELSE IF a = b THEN 0
    ELSE LET i == CHOOSE k \in 1..Len(a) :
                      a[k] # b[k] /\ \A j \in 1..(k - 1) : a[j] = b[j]
         IN  IF a[i] < b[i] THEN -1 ELSE 1

RECURSIVE NatAddC(_, _, _)
NatAddC(a, b, c) ==
    IF a = <<>> /\ b = <<>> THEN (IF c = 0 THEN <<>> ELSE <<c>>)
    ELSE LET x == IF a = <<>> THEN 0 ELSE a[Len(a)]
             y == IF b = <<>> THEN 0 ELSE b[Len(b)]
             t == x + y + c
         IN  Append(NatAddC(DropLast(a), DropLast(b), t \div 10), t % 10)

NatAdd(a, b) == Strip(NatAddC(a, b, 0))

RECURSIVE NatSubB(_, _, _)
\* a - b - c for a >= b + c
NatSubB(a, b, c) ==
    IF a = <<>> THEN <<>>
    ELSE LET x == a[Len(a)]
             y == (IF b = <<>> THEN 0 ELSE b[Len(b)]) + c
         IN  IF x >= y
             THEN Append(NatSubB(DropLast(a), DropLast(b), 0), x - y)
             ELSE Append(NatSubB(DropLast(a), DropLast(b), 1), x + 10 - y)

NatSub(a, b) == Strip(NatSubB(a, b, 0))

RECURSIVE NatMulD(_, _, _)
\* a * d + c for a digit d
NatMulD(a, d, c) ==
    IF a = <<>> THEN (IF c = 0 THEN <<>> ELSE <<c>>)
    ELSE LET t == a[Len(a)] * d + c
         IN  Append(NatMulD(DropLast(a), d, t \div 10), t % 10)

RECURSIVE NatMul(_, _)
NatMul(a, b) ==
    IF a = <<>> \/ b = <<>> THEN <<>>
    ELSE NatAdd(Strip(Append(NatMul(a, DropLast(b)), 0)),
                Strip(NatMulD(a, b[Len(b)], 0)))

RECURSIVE NatDivMod(_, _)
\* long division of a by b > 0: [q |-> quotient digits, r |-> remainder]
NatDivMod(a, b) ==
    IF a = <<>> THEN [q |-> <<>>, r |-> <<>>]
    ELSE LET p  == NatDivMod(DropLast(a), b)
             r1 == Strip(Append(p.r, a[Len(a)]))
             qd == CHOOSE k \in 0..9 :
                       /\ NatCmp(Strip(NatMulD(b, k, 0)), r1) <= 0
                       /\ k < 9 => NatCmp(Strip(NatMulD(b, k + 1, 0)), r1) > 0
         IN  [q |-> Append(p.q, qd), r |-> NatSub(r1, Strip(NatMulD(b, qd, 0)))]

\* floor(a / b)
NatDiv(a, b) == Strip(NatDivMod(a, b).q)

\* a small natural number as a digit list, and back
RECURSIVE NatOfInt(_)
NatOfInt(n) == IF n = 0 THEN <<>> ELSE Append(NatOfInt(n \div 10), n % 10)

RECURSIVE IntOfNat(_)
IntOfNat(a) == IF a = <<>> THEN 0 ELSE IntOfNat(DropLast(a)) * 10 + a[Len(a)]

\* ------------------------------------------------------- JavaScript Numbers

\* A Number is NaN or (-1)^neg * (dig / den) * 10^(-sc).  den is <<1>> except
\* for the not yet rounded quotient that compute returns for "/".
NaN == [kind |-> "NaN", neg |-> FALSE, dig |-> <<>>, sc |-> 0, den |-> <<1>>]

\* previousValue = null
Null == [kind |-> "null", neg |-> FALSE, dig |-> <<>>, sc |-> 0, den |-> <<1>>]

Zero == [kind |-> "num", neg |-> FALSE, dig |-> <<>>, sc |-> 0, den |-> <<1>>]

\* Decimal exponent below which a double underflows to 0.
MinDecimalExponent == 323

RECURSIVE Canon(_, _)
\* drop trailing fractional zeros
Canon(d, sc) ==
    IF sc > 0 /\ d # <<>> /\ d[Len(d)] = 0 THEN Canon(Front(d), sc - 1)
    ELSE [dig |-> d, sc |-> sc]

\* The Number with the given sign, digits and scale, in canonical form
\* (0 and -0 print and compare alike and are one value here).
MkNum(neg, dig, sc) ==
    LET d == Strip(dig)
        c == Canon(d, sc)
    IN  IF d = <<>> \/ Len(d) - sc < 0 - MinDecimalExponent THEN Zero
        ELSE [kind |-> "num", neg |-> neg, dig |-> c.dig, sc |-> c.sc, den |-> <<1>>]

IsNaN(x) == x.kind = "NaN"

IsZero(x) == x.kind = "num" /\ x.dig = <<>>

\* digits of x scaled to sc fractional digits (sc >= x.sc)
Scaled(x, sc) == IF x.dig = <<>> THEN <<>> ELSE x.dig \o Zeros(sc - x.sc)

Max(m, n) == IF m >= n THEN m ELSE n

\* a + b
NumAdd(a, b) ==
    IF IsNaN(a) \/ IsNaN(b) THEN NaN
    ELSE LET s == Max(a.sc, b.sc)
             x == Scaled(a, s)
             y == Scaled(b, s)
         IN  IF a.neg = b.neg THEN MkNum(a.neg, NatAdd(x, y), s)
             ELSE IF NatCmp(x, y) >= 0 THEN MkNum(a.neg, NatSub(x, y), s)
             ELSE MkNum(b.neg, NatSub(y, x), s)

NumNeg(a) == IF IsNaN(a) \/ IsZero(a) THEN a ELSE [a EXCEPT !.neg = ~a.neg]

\* a - b
NumSub(a, b) == NumAdd(a, NumNeg(b))

\* a * b
NumMul(a, b) ==
    IF IsNaN(a) \/ IsNaN(b) THEN NaN
    ELSE MkNum(a.neg # b.neg, NatMul(a.dig, b.dig), a.sc + b.sc)

\* a / b for b # 0: the exact quotient, kept as a fraction until it is rounded
NumDiv(a, b) ==
    IF IsNaN(a) \/ IsNaN(b) THEN NaN
    ELSE IF IsZero(a) THEN Zero
    ELSE LET s == Max(a.sc, b.sc)
         IN  [kind |-> "num", neg |-> (a.neg # b.neg), dig |-> Scaled(a, s),
              sc |-> 0, den |-> Scaled(b, s)]

\* val / 100, as the decimal quotient.  The quotient that the double division
\* yields can differ from it in the seventeenth significant digit; that
\* rounding error is not modelled.
NumDiv100(a) == IF IsNaN(a) THEN NaN ELSE MkNum(a.neg, a.dig, a.sc + 2)

\* Number.prototype.toFixed(f): the decimal string of x rounded to f
\* fractional digits, ties away from zero (for |x| < 1e21).
toFixed(x, f) ==
    IF IsNaN(x) THEN <<"N", "a", "N">>
    ELSE LET N  == IF x.sc <= f THEN Strip(x.dig \o Zeros(f - x.sc)) ELSE x.dig
             D  == IF x.sc <= f THEN x.den ELSE x.den \o Zeros(x.sc - f)
             n  == NatDiv(NatAdd(NatMulD(N, 2, 0), D), Strip(NatMulD(D, 2, 0)))
             m  == IF Len(n) < f + 1 THEN Zeros(f + 1 - Len(n)) \o n ELSE n
             k  == Len(m)
             ds == [i \in 1..k |-> DigitChars[m[i] + 1]]
         IN  (IF x.neg THEN <<"-">> ELSE <<>>)
             \o SubSeq(ds, 1, k - f)
             \o (IF f = 0 THEN <<>> ELSE <<".">> \o SubSeq(ds, k - f + 1, k))

\* the decimal digits of a small natural number, as characters
IntChars(n) ==
    LET a == IF n = 0 THEN <<0>> ELSE NatOfInt(n)
    IN  [i \in 1..Len(a) |-> DigitChars[a[i] + 1]]

\* String(x) for a Number x (Number::toString, radix 10)
String(x) ==
    IF IsNaN(x) THEN <<"N", "a", "N">>
    ELSE IF IsZero(x) THEN <<"0">>
    ELSE LET s  == StripTrail(x.dig)
             k  == Len(s)
             n  == Len(x.dig) - x.sc
             ds == [i \in 1..k |-> DigitChars[s[i] + 1]]
             e  == n - 1
             body ==
                 IF k <= n /\ n <= 21
                 THEN ds \o [i \in 1..(n - k) |-> "0"]
                 ELSE IF 0 < n /\ n <= 21
                 THEN SubSeq(ds, 1, n) \o <<".">> \o SubSeq(ds, n + 1, k)
                 ELSE IF -6 < n /\ n <= 0
                 THEN <<"0", ".">> \o [i \in 1..(0 - n) |-> "0"] \o ds
                 ELSE (IF k = 1 THEN ds ELSE <<ds[1], ".">> \o SubSeq(ds, 2, k))
                      \o <<"e", (IF e >= 0 THEN "+" ELSE "-")>>
                      \o IntChars(IF e >= 0 THEN e ELSE 0 - e)
         IN  (IF x.neg THEN <<"-">> ELSE <<>>) \o body

\* the digits of a string of digit characters
DigitsOf(s) == [i \in 1..Len(s) |-> DigitVal(s[i])]

\* Number(s): StringToNumber over the characters the calculator can produce
\* (no white space, no "Infinity", no radix prefix); "" is 0, and a string
\* that is no decimal literal is NaN.
Number(s) ==
    IF s = <<>> THEN Zero
    ELSE LET signed == s[1] \in {"-", "+"}
             neg    == s[1] = "-"
             body   == IF signed THEN Tail(s) ELSE s
             ePos   == FirstOf(body, {"e", "E"})
             mant   == IF ePos = 0 THEN body ELSE SubSeq(body, 1, ePos - 1)
             expo   == IF ePos = 0 THEN <<>> ELSE SubSeq(body, ePos + 1, Len(body))
             eSigned == expo # <<>> /\ expo[1] \in {"-", "+"}
             eNeg   == expo # <<>> /\ expo[1] = "-"
             eDigs  == IF eSigned THEN Tail(expo) ELSE expo
             dPos   == FirstOf(mant, {"."})
             int    == IF dPos = 0 THEN mant ELSE SubSeq(mant, 1, dPos - 1)
             frac   == IF dPos = 0 THEN <<>> ELSE SubSeq(mant, dPos + 1, Len(mant))
             ok     == /\ AllDigits(int) /\ AllDigits(frac)
                       /\ Len(int) + Len(frac) >= 1
                       /\ (dPos # 0 /\ int = <<>>) => frac # <<>>
                       /\ ePos # 0 => (eDigs # <<>> /\ AllDigits(eDigs))
         IN  IF ~ok THEN NaN
             ELSE LET e  == IntOfNat(DigitsOf(eDigs))
                      sc == IF eNeg THEN Len(frac) + e ELSE Len(frac) - e
                      d  == DigitsOf(int \o frac)
                  IN  IF sc >= 0 THEN MkNum(neg, d, sc)
                      ELSE MkNum(neg, d \o Zeros(0 - sc), 0)

\* ----------------------------------------------------------------- helpers

\* operator = null
NoOp == "null"

\* default of clampLength's parameter max
DefaultMax == 14

\* fractional digits kept by toFixed(10)
FixedDigits == 10

Error == <<"E", "r", "r", "o", "r">>

\* The state record the handlers work on.
State ==
    [currentInput |-> currentInput, previousValue |-> previousValue,
     operator |-> operator, justEvaluated |-> justEvaluated,
     prevEl |-> prevEl, currEl |-> currEl]

prettyOp(op) ==
    IF op = "/" THEN "DIVISION SIGN"
    ELSE IF op = "*" THEN "MULTIPLICATION SIGN"
    ELSE IF op = "-" THEN "MINUS SIGN"
    ELSE op

\* render that leaves the top line as it is
renderBottomOnly(s) == [s EXCEPT !.currEl = s.currentInput]

render(s) ==
    [s EXCEPT
        !.prevEl = IF s.previousValue # Null /\ s.operator # NoOp
                   THEN String(s.previousValue) \o <<" ", prettyOp(s.operator)>>
                   ELSE <<>>,
        !.currEl = s.currentInput]

\* number of leading "0" characters of s
LeadingZeros(s) ==
    IF \E i \in 1..Len(s) : s[i] # "0"
    THEN (CHOOSE i \in 1..Len(s) : s[i] # "0" /\ \A j \in 1..(i - 1) : s[j] = "0") - 1
    ELSE Len(s)

\* s.replace(/^0+(?=\d)/, ""): the longest run of leading zeros that is
\* followed by a digit is removed
normalizeNumberString(s) ==
    IF s = <<"0">> \/ StartsWith(s, <<"0", ".">>) THEN s
    ELSE LET z == LeadingZeros(s)
             n == IF z < Len(s) /\ IsDigit(s[z + 1]) THEN z ELSE z - 1
         IN  IF n >= 1 THEN SubSeq(s, n + 1, Len(s)) ELSE s

\* clampLength that keeps one character more
clampLengthOffByOne(s, max) == IF Len(s) <= max THEN s ELSE SubSeq(s, 1, max + 1)

clampLength(s, max) == IF Len(s) <= max THEN s ELSE SubSeq(s, 1, max)

inputToNumber(s) == Number(s.currentInput)

\* compute with a quotient of 0 where the divisor is 0
computeZeroQuotient(a, op, b) ==
    IF op = "+" THEN NumAdd(a, b)
    ELSE IF op = "-" THEN NumSub(a, b)
    ELSE IF op = "*" THEN NumMul(a, b)
    ELSE IF op = "/" THEN (IF IsZero(b) THEN Zero ELSE NumDiv(a, b))
    ELSE b

\* null (division by zero) is the value Null
compute(a, op, b) ==
    IF op = "+" THEN NumAdd(a, b)
    ELSE IF op = "-" THEN NumSub(a, b)
    ELSE IF op = "*" THEN NumMul(a, b)
    ELSE IF op = "/" THEN (IF IsZero(b) THEN Null ELSE NumDiv(a, b))
    ELSE b

\* +result.toFixed(10)
Rounded(result) == Number(toFixed(result, FixedDigits))

\* ---------------------------------------------------------- input handlers

\* handleDigit that appends the digit and nothing else
handleDigitAppending(s, d) ==
    IF s.justEvaluated
    THEN render([s EXCEPT !.currentInput = <<d>>, !.justEvaluated = FALSE])
    ELSE render([s EXCEPT
                    !.currentInput = clampLength(Append(s.currentInput, d), DefaultMax)])

handleDigit(s, d) ==
    IF s.justEvaluated
    THEN render([s EXCEPT !.currentInput = <<d>>, !.justEvaluated = FALSE])
    ELSE LET c == IF s.currentInput = <<"0">> THEN <<d>>
                  ELSE clampLength(Append(s.currentInput, d), DefaultMax)
         IN  render([s EXCEPT !.currentInput = normalizeNumberString(c)])

\* handleDot that appends the decimal point without calling render
handleDotUnrendered(s) ==
    IF s.justEvaluated
    THEN render([s EXCEPT !.currentInput = <<"0", ".">>, !.justEvaluated = FALSE])
    ELSE IF ~Includes(s.currentInput, ".")
    THEN [s EXCEPT !.currentInput = clampLength(Append(s.currentInput, "."), DefaultMax)]
    ELSE s

\* handleDot without the test for a decimal point that is already there
handleDotRepeated(s) ==
    IF s.justEvaluated
    THEN render([s EXCEPT !.currentInput = <<"0", ".">>, !.justEvaluated = FALSE])
    ELSE render([s EXCEPT
                    !.currentInput = clampLength(Append(s.currentInput, "."), DefaultMax)])

handleDot(s) ==
    IF s.justEvaluated
    THEN render([s EXCEPT !.currentInput = <<"0", ".">>, !.justEvaluated = FALSE])
    ELSE IF ~Includes(s.currentInput, ".")
    THEN render([s EXCEPT
                    !.currentInput = clampLength(Append(s.currentInput, "."), DefaultMax)])
    ELSE s

\* handleOperator that leaves justEvaluated as it is
handleOperatorKeepingFlag(s, op) ==
    LET currVal == inputToNumber(s)
        chain   == s.previousValue # Null /\ s.operator # NoOp /\ ~s.justEvaluated
        result  == compute(s.previousValue, s.operator, currVal)
    IN  IF chain /\ result = Null
        THEN render([s EXCEPT !.currentInput = Error, !.previousValue = Null,
                              !.operator = NoOp])
        ELSE render([s EXCEPT
                 !.previousValue = IF s.previousValue = Null THEN currVal
                                   ELSE IF chain THEN Rounded(result)
                                   ELSE s.previousValue,
                 !.operator = op,
                 !.currentInput = <<"0">>])

\* handleOperator that does not evaluate the pending operation
handleOperatorUnchained(s, op) ==
    LET currVal == inputToNumber(s)
    IN  render([s EXCEPT
             !.previousValue = IF s.previousValue = Null THEN currVal
                               ELSE s.previousValue,
             !.operator = op,
             !.currentInput = <<"0">>,
             !.justEvaluated = FALSE])

handleOperator(s, op) ==
    LET currVal == inputToNumber(s)
        chain   == s.previousValue # Null /\ s.operator # NoOp /\ ~s.justEvaluated
        result  == compute(s.previousValue, s.operator, currVal)
    IN  IF chain /\ result = Null
        THEN render([s EXCEPT !.currentInput = Error, !.previousValue = Null,
                              !.operator = NoOp])
        ELSE render([s EXCEPT
                 !.previousValue = IF s.previousValue = Null THEN currVal
                                   ELSE IF chain THEN Rounded(result)
                                   ELSE s.previousValue,
                 !.operator = op,
                 !.currentInput = <<"0">>,
                 !.justEvaluated = FALSE])

\* handleEquals without the test for a pending operation
handleEqualsUnguarded(s) ==
    LET currVal == inputToNumber(s)
        result  == compute(s.previousValue, s.operator, currVal)
    IN  render([s EXCEPT
            !.currentInput = IF result = Null THEN Error
                             ELSE String(Rounded(result)),
            !.previousValue = Null,
            !.operator = NoOp,
            !.justEvaluated = TRUE])

\* handleEquals that leaves the operator pending
handleEqualsKeepingOperator(s) ==
    IF s.previousValue = Null \/ s.operator = NoOp THEN s
    ELSE LET currVal == inputToNumber(s)
             result  == compute(s.previousValue, s.operator, currVal)
         IN  render([s EXCEPT
                 !.currentInput = IF result = Null THEN Error
                                  ELSE String(Rounded(result)),
                 !.previousValue = Null,
                 !.justEvaluated = TRUE])

handleEquals(s) ==
    IF s.previousValue = Null \/ s.operator = NoOp THEN s
    ELSE LET currVal == inputToNumber(s)
             result  == compute(s.previousValue, s.operator, currVal)
         IN  render([s EXCEPT
                 !.currentInput = IF result = Null THEN Error
                                  ELSE String(Rounded(result)),
                 !.previousValue = Null,
                 !.operator = NoOp,
                 !.justEvaluated = TRUE])

\* handleClear that leaves justEvaluated as it is
handleClearKeepingFlag(s) ==
    render([s EXCEPT !.currentInput = <<"0">>, !.previousValue = Null,
                     !.operator = NoOp])

handleClear(s) ==
    render([s EXCEPT !.currentInput = <<"0">>, !.previousValue = Null,
                     !.operator = NoOp, !.justEvaluated = FALSE])

\* handleDelete that does not strip a trailing decimal point
handleDeletePlain(s) ==
    IF s.justEvaluated
    THEN render([s EXCEPT !.currentInput = <<"0">>, !.justEvaluated = FALSE])
    ELSE LET c == IF Len(s.currentInput) <= 1 THEN <<"0">>
                  ELSE DropLast(s.currentInput)
         IN  render([s EXCEPT !.currentInput = normalizeNumberString(c)])

handleDelete(s) ==
    IF s.justEvaluated
    THEN render([s EXCEPT !.currentInput = <<"0">>, !.justEvaluated = FALSE])
    ELSE LET c1 == DropLast(s.currentInput)
             c  == IF Len(s.currentInput) <= 1 THEN <<"0">>
                   ELSE IF EndsWith(c1, ".")
                   THEN (IF DropLast(c1) = <<>> THEN <<"0">> ELSE DropLast(c1))
                   ELSE c1
         IN  render([s EXCEPT !.currentInput = normalizeNumberString(c)])

\* handlePercent without clampLength
handlePercentUnclamped(s) ==
    LET val == inputToNumber(s)
    IN  render([s EXCEPT !.currentInput = String(NumDiv100(val))])

handlePercent(s) ==
    LET val == inputToNumber(s)
    IN  render([s EXCEPT
            !.currentInput = clampLength(String(NumDiv100(val)), DefaultMax)])

handleSign(s) ==
    IF s.currentInput = <<"0">> THEN s
    ELSE IF StartsWith(s.currentInput, <<"-">>)
    THEN render([s EXCEPT !.currentInput = Tail(s.currentInput)])
    ELSE render([s EXCEPT !.currentInput = <<"-">> \o s.currentInput])

\* The click listener: the handler a key is forwarded to.
click(s, key) ==
    IF key \in Digits THEN handleDigit(s, key)
    ELSE IF key = "." THEN handleDot(s)
    ELSE IF key \in Ops THEN handleOperator(s, key)
    ELSE IF key = "clear" THEN handleClear(s)
    ELSE IF key = "delete" THEN handleDelete(s)
    ELSE IF key = "equals" THEN handleEquals(s)
    ELSE IF key = "percent" THEN handlePercent(s)
    ELSE IF key = "sign" THEN handleSign(s)
    ELSE s

\* ------------------------------------------------------------ state machine

Default ==
    [currentInput |-> <<"0">>, previousValue |-> Null, operator |-> NoOp,
     justEvaluated |-> FALSE, prevEl |-> <<>>, currEl |-> <<>>]

\* The handled event leaves the calculator in state s.
Becomes(s) ==
    /\ currentInput' = s.currentInput
    /\ previousValue' = s.previousValue
    /\ operator' = s.operator
    /\ justEvaluated' = s.justEvaluated
    /\ prevEl' = s.prevEl
    /\ currEl' = s.currEl

\* The module's top-level code: the state declarations and the initial render.
Loaded ==
    /\ currentInput = render(Default).currentInput
    /\ previousValue = render(Default).previousValue
    /\ operator = render(Default).operator
    /\ justEvaluated = render(Default).justEvaluated
    /\ prevEl = render(Default).prevEl
    /\ currEl = render(Default).currEl
    /\ last = "none"
    /\ steps = 0

\* No script: the keys are pressed freely.
Free == [a |-> <<>>, op1 |-> NoOp, b |-> <<>>, op2 |-> NoOp, c |-> <<>>]

Init == Loaded /\ script = Free

\* One more click is dispatched: last is the data-action (or the digit or
\* operator) of the button.
Event(key) ==
    /\ steps < MaxSteps
    /\ steps' = steps + 1
    /\ last' = key
    /\ UNCHANGED script

HandleDigit(d) == Event(d) /\ Becomes(handleDigit(State, d))

HandleDot == Event(".") /\ Becomes(handleDot(State))

HandleOperator(op) == Event(op) /\ Becomes(handleOperator(State, op))

HandleEquals == Event("equals") /\ Becomes(handleEquals(State))

HandleClear == Event("clear") /\ Becomes(handleClear(State))

HandleDelete == Event("delete") /\ Becomes(handleDelete(State))

HandlePercent == Event("percent") /\ Becomes(handlePercent(State))

HandleSign == Event("sign") /\ Becomes(handleSign(State))

Next ==
    \/ \E d \in Digits : HandleDigit(d)
    \/ HandleDot
    \/ \E op \in Ops : HandleOperator(op)
    \/ HandleEquals
    \/ HandleClear
    \/ HandleDelete
    \/ HandlePercent
    \/ HandleSign

Spec == Init /\ [][Next]_vars

\* ------------------------------------------------------- chained calculations

\* The operands entered in a chained calculation, as the keys that enter them.
Operands == {<<"0">>, <<"3">>, <<"5">>, <<"3", "5">>, <<"0", ".", "5">>}

\* enter a, operator(op1), enter b, operator(op2), enter c, equals()
Keys(p) == p.a \o <<p.op1>> \o p.b \o <<p.op2>> \o p.c \o <<"equals">>

InitChain ==
    /\ Loaded
    /\ script \in [a : Operands, op1 : Ops, b : Operands, op2 : Ops, c : Operands]

\* The next key of the script is clicked.
Press ==
    /\ steps < Len(Keys(script))
    /\ steps' = steps + 1
    /\ last' = Keys(script)[steps + 1]
    /\ Becomes(click(State, Keys(script)[steps + 1]))
    /\ UNCHANGED script

NextChain == Press

SpecChain == InitChain /\ [][NextChain]_vars

\* -------------------------------------------------------------- long inputs

\* Number of keys pressed while a long input is typed.
MaxEntry == 16

\* The digit keys pressed while a long input is typed.
EntryDigits == {"0", "5"}

\* One more click is dispatched while a long input is typed.
Typed(key) ==
    /\ steps < MaxEntry
    /\ steps' = steps + 1
    /\ last' = key
    /\ UNCHANGED script

TypeDigit(d) == Typed(d) /\ Becomes(handleDigit(State, d))

TypeSign == Typed("sign") /\ Becomes(handleSign(State))

\* digit events only
NextDigits == \E d \in EntryDigits : TypeDigit(d)

SpecDigits == Init /\ [][NextDigits]_vars

\* digit and sign events
NextEntry ==
    \/ \E d \in EntryDigits : TypeDigit(d)
    \/ TypeSign

SpecEntry == Init /\ [][NextEntry]_vars

\* ------------------------------------------------------------------ claims

\* C1: in every reachable state the operator is set only when previousValue
\* is set: operator # null implies previousValue # null.
OperatorImpliesPrevious == operator # NoOp => previousValue # Null

\* an operator key has left an operation pending
PendingOperation == last \in Ops /\ operator # NoOp /\ previousValue # Null

\* C2: in every reachable state currentInput has at most 14 characters.
InputWithinCap == Len(currentInput) <= DefaultMax

\* C3: when the pending operator is "/" and the value of currentInput is 0, an
\* equals event, and an operator event that evaluates the pending operation,
\* leave currentInput "Error" and previousValue and operator null (the operator
\* event does not store its operator).
DivideByZeroIsError ==
    [][(/\ operator = "/"
        /\ IsZero(Number(currentInput))
        /\ \/ last' = "equals"
           \/ last' \in Ops /\ ~justEvaluated)
       => (currentInput' = Error /\ previousValue' = Null /\ operator' = NoOp)]_vars

\* an operator key has evaluated a division by zero
ChainedDivideByZero ==
    /\ last \in Ops
    /\ currentInput = Error
    /\ previousValue = Null
    /\ operator = NoOp

\* C4: once currentInput is "Error", every event other than clear leaves it
\* "Error".
ErrorUntilClear ==
    [][(currentInput = Error /\ last' # "clear") => currentInput' = Error]_vars

\* optional "-", digits, and at most one "." followed by digits
PartialLiteral(s) ==
    LET u == IF StartsWith(s, <<"-">>) THEN Tail(s) ELSE s
    IN  \E n \in 1..Len(u) :
            /\ AllDigits(SubSeq(u, 1, n))
            /\ \/ n = Len(u)
               \/ u[n + 1] = "." /\ AllDigits(SubSeq(u, n + 2, Len(u)))

\* C5: in every reachable state currentInput is "Error" or a valid partial
\* numeric literal, so that its value is not NaN outside the Error state.
InputIsLiteral ==
    /\ currentInput = Error \/ PartialLiteral(currentInput)
    /\ currentInput # Error => ~IsNaN(Number(currentInput))

\* the operands of the script as Numbers
OperandA == Number(script.a)

OperandB == Number(script.b)

OperandC == Number(script.c)

\* the script divides by zero
DividesByZero ==
    \/ script.op1 = "/" /\ IsZero(OperandB)
    \/ script.op2 = "/" /\ IsZero(OperandC)

\* operator(op2) has just been handled
AfterSecondOperator == steps = Len(script.a) + Len(script.b) + 2

\* equals() has just been handled
AfterEquals == steps = Len(Keys(script))

\* denominator of the Number x over its digits: den * 10^sc
Denominator(x) == x.den \o Zeros(x.sc)

\* the Number x as an integer with the denominator den: x * den / Denominator(x)
Over(x, den) == MkNum(x.neg, NatMul(x.dig, den), 0)

\* x op y without any rounding, as a fraction (y # 0 for "/")
Exact(x, op, y) ==
    LET n == IF op = "+" THEN NumAdd(Over(x, Denominator(y)), Over(y, Denominator(x)))
             ELSE IF op = "-"
             THEN NumSub(Over(x, Denominator(y)), Over(y, Denominator(x)))
             ELSE IF op = "*" THEN Over(x, y.dig)
             ELSE Over(x, Denominator(y))
        d == IF op = "/" THEN NatMul(Denominator(x), y.dig)
             ELSE NatMul(Denominator(x), Denominator(y))
    IN  [kind |-> "num", neg |-> IF op \in {"*", "/"} THEN x.neg # y.neg ELSE n.neg,
         dig |-> n.dig, sc |-> 0, den |-> d]

\* x and y are the same value
SameValue(x, y) ==
    /\ x.kind = "num" /\ y.kind = "num"
    /\ NatMul(x.dig, Denominator(y)) = NatMul(y.dig, Denominator(x))
    /\ x.dig = <<>> \/ x.neg = y.neg

\* C6 as claimed: for a script that does not divide by zero, after
\* operator(op2) previousValue is a op1 b, and after equals() currentInput
\* shows (a op1 b) op2 c (as equals prints it, with ten decimals at most),
\* previousValue and operator are null and justEvaluated is true.
ChainExact ==
    ~DividesByZero =>
        /\ AfterSecondOperator =>
               SameValue(previousValue, Exact(OperandA, script.op1, OperandB))
        /\ AfterEquals =>
               /\ currentInput =
                      String(Rounded(Exact(Exact(OperandA, script.op1, OperandB),
                                           script.op2, OperandC)))
               /\ previousValue = Null
               /\ operator = NoOp
               /\ justEvaluated

\* C6 amended: operators chain left to right with no precedence, each
\* evaluation rounded to ten decimals: after operator(op2) previousValue is
\* a op1 b rounded, and after equals() currentInput shows that rounded value
\* op2 c, rounded again, previousValue and operator are null and
\* justEvaluated is true.
ChainRounded ==
    ~DividesByZero =>
        /\ AfterSecondOperator =>
               /\ previousValue = Rounded(compute(OperandA, script.op1, OperandB))
               /\ operator = script.op2
        /\ AfterEquals =>
               /\ currentInput =
                      String(Rounded(compute(
                          Rounded(compute(OperandA, script.op1, OperandB)),
                          script.op2, OperandC)))
               /\ previousValue = Null
               /\ operator = NoOp
               /\ justEvaluated

\* 5 / 3 * 3 has been evaluated: it shows 5.0000000001
RoundedChainShown ==
    /\ AfterEquals
    /\ script.a = <<"5">> /\ script.op1 = "/" /\ script.b = <<"3">>
    /\ script.op2 = "*" /\ script.c = <<"3">>
    /\ currentInput = <<"5", ".", "0", "0", "0", "0", "0", "0", "0", "0", "0", "1">>

\* C7: an equals event in a state where previousValue or operator is null
\* leaves currentInput, previousValue, operator and justEvaluated unchanged.
EqualsWithoutPending ==
    [][(last' = "equals" /\ (previousValue = Null \/ operator = NoOp))
       => UNCHANGED <<currentInput, previousValue, operator, justEvaluated>>]_vars

\* equals has been pressed on an input with nothing pending, and has not
\* evaluated anything
EqualsIgnored ==
    /\ last = "equals"
    /\ ~justEvaluated
    /\ previousValue = Null
    /\ currentInput # <<"0">>

\* C8: in every reachable state currentInput has at most one decimal point.
AtMostOneDot == Count(currentInput, ".") <= 1

\* the dot key has been pressed on an input that had a decimal point inside
DotRefused ==
    /\ last = "."
    /\ Count(currentInput, ".") = 1
    /\ ~EndsWith(currentInput, ".")

\* C9: in every reachable state currentInput is not the empty string.
InputNotEmpty == currentInput # <<>>

\* C10: two sign events in a row restore currentInput and every other field;
\* sign on "0" changes nothing, and on any other input it toggles a leading
\* "-".
SignTwiceRestores ==
    /\ handleSign(handleSign(State)) = State
    /\ currentInput = <<"0">> => handleSign(State) = State
    /\ currentInput # <<"0">> =>
           handleSign(State).currentInput =
               IF StartsWith(currentInput, <<"-">>) THEN Tail(currentInput)
               ELSE <<"-">> \o currentInput

\* C11: an operator event in a state where previousValue is null makes the
\* value of currentInput the previousValue, stores the operator, resets
\* currentInput to "0" and clears justEvaluated; the top line shows the value
\* and the operator's symbol, the bottom line "0".
OperatorAdoptsInput ==
    [][(last' \in Ops /\ previousValue = Null)
       => /\ previousValue' = Number(currentInput)
          /\ operator' = last'
          /\ currentInput' = <<"0">>
          /\ ~justEvaluated'
          /\ prevEl' = String(Number(currentInput)) \o <<" ", prettyOp(last')>>
          /\ currEl' = <<"0">>]_vars

\* digit 5 then "+" shows "5 +" over "0"
FivePlusShown ==
    /\ last = "+"
    /\ steps = 2
    /\ prevEl = <<"5", " ", "+">>
    /\ currEl = <<"0">>

\* C12: a clear event leaves currentInput "0", previousValue and operator
\* null and justEvaluated false, which (with the cleared display) is the
\* initial state.
ClearResets ==
    [][last' = "clear"
       => /\ currentInput' = <<"0">>
          /\ previousValue' = Null
          /\ operator' = NoOp
          /\ ~justEvaluated'
          /\ prevEl' = <<>>
          /\ currEl' = <<"0">>]_vars

\* clear has been pressed after other keys and the fields have their defaults
ClearedAgain ==
    /\ last = "clear"
    /\ steps > 1
    /\ State = render(Default)

\* C13: a percent event leaves previousValue, operator and justEvaluated
\* unchanged, and sets currentInput to the string of its value divided by
\* 100, cut to 14 characters.
PercentOnlyInput ==
    [][last' = "percent"
       => /\ UNCHANGED <<previousValue, operator, justEvaluated>>
          /\ currentInput' =
                 clampLength(String(NumDiv100(Number(currentInput))), DefaultMax)]_vars

\* percent on "50" has shown "0.5"
HalfShown ==
    /\ last = "percent"
    /\ steps = 3
    /\ currentInput = <<"0", ".", "5">>

\* C14: after a delete event currentInput does not end with ".".
DeleteLeavesNoDot ==
    [][last' = "delete" => ~EndsWith(currentInput', ".")]_vars

\* an input from which delete removes a digit and the "." before it
DotBeforeLastDigit ==
    /\ steps < MaxSteps
    /\ ~justEvaluated
    /\ Len(currentInput) > 2
    /\ EndsWith(DropLast(currentInput), ".")
    /\ handleDelete(State).currentInput = DropLast(DropLast(currentInput))

RECURSIVE Deleted(_, _)
\* the state after n delete events in a row
Deleted(s, n) == IF n = 0 THEN s ELSE Deleted(handleDelete(s), n - 1)

\* C15: from every reachable state, as many delete events as currentInput has
\* characters bring currentInput to "0", one more leaves it "0", and
\* previousValue and operator are unchanged throughout.
DeletesReachZero ==
    /\ Deleted(State, Len(currentInput)).currentInput = <<"0">>
    /\ Deleted(State, Len(currentInput) + 1).currentInput = <<"0">>
    /\ \A n \in 0..(Len(currentInput) + 1) :
           /\ Deleted(State, n).previousValue = previousValue
           /\ Deleted(State, n).operator = operator

\* C16: after any sequence of digit events from the default state,
\* currentInput is "0" or a string of digits that does not start with "0"
\* (and has no decimal point).
NoRedundantZero ==
    \/ currentInput = <<"0">>
    \/ /\ Len(currentInput) >= 1
       /\ AllDigits(currentInput)
       /\ currentInput[1] # "0"

\* the digit 0 has been pressed twice, and currentInput is still "0"
ZeroOnZero == last = "0" /\ steps = 2 /\ currentInput = <<"0">>

\* C17: after a digit event currentInput has at most 14 characters, also
\* when it had more than 14 before.
DigitWithinCap ==
    [][last' \in EntryDigits => Len(currentInput') <= DefaultMax]_vars

\* an input of more than 14 characters, which a digit brings back to 14
LongInputClamped ==
    /\ steps < MaxEntry
    /\ Len(currentInput) > DefaultMax
    /\ Len(handleDigit(State, "5").currentInput) = DefaultMax

\* C18: in every reachable state the bottom line is currentInput and the top
\* line is previousValue, a space and the operator's symbol when previousValue
\* and operator are both set, and empty otherwise.
DisplayIsRendering ==
    /\ currEl = currentInput
    /\ prevEl = IF previousValue # Null /\ operator # NoOp
                THEN String(previousValue) \o <<" ", prettyOp(operator)>>
                ELSE <<>>

\* sign has been pressed on "0" with an operation pending: handleSign has
\* returned without calling render
SignOnZeroPending ==
    /\ last = "sign"
    /\ currentInput = <<"0">>
    /\ operator # NoOp
    /\ prevEl # <<>>

\* C19: in every reachable state justEvaluated implies that previousValue and
\* operator are null, so that an operator event with a pending operator finds
\* justEvaluated false and evaluates the pending operation.
EvaluatedMeansNothingPending ==
    justEvaluated => (previousValue = Null /\ operator = NoOp)

\* a result is shown and a key that keeps justEvaluated has been pressed
ResultKept ==
    /\ justEvaluated
    /\ last \in {"percent", "sign"}
    /\ previousValue = Null
    /\ operator = NoOp

\* C20 as claimed: an operator event right after an operator event that left
\* an operation pending leaves previousValue unchanged, stores the new
\* operator and does not show "Error".
OperatorOnlyReplaced ==
    [][(last \in Ops /\ operator # NoOp /\ last' \in Ops)
       => /\ previousValue' = previousValue
          /\ operator' = last'
          /\ currentInput' # Error]_vars

\* C20 amended: an operator event right after an operator event that left an
\* operation pending evaluates that operation with the operand 0: for "/" it
\* shows "Error" and clears previousValue and operator; otherwise it stores
\* the new operator, leaves currentInput "0", and previousValue becomes 0 for
\* "*" (NaN if it was NaN) and previousValue rounded to ten decimals for "+"
\* and "-".
SecondOperatorEvaluates ==
    [][(last \in Ops /\ operator # NoOp /\ last' \in Ops)
       => IF operator = "/"
          THEN currentInput' = Error /\ previousValue' = Null /\ operator' = NoOp
          ELSE /\ previousValue' =
                      IF operator = "*"
                      THEN (IF IsNaN(previousValue) THEN NaN ELSE Zero)
                      ELSE Rounded(previousValue)
               /\ operator' = last'
               /\ currentInput' = <<"0">>]_vars

\* "*" is pending on a value that is not 0, and a second operator makes
\* previousValue 0
ProductWithZero ==
    /\ steps < MaxSteps
    /\ last = "*"
    /\ operator = "*"
    /\ ~IsNaN(previousValue) /\ ~IsZero(previousValue)
    /\ handleOperator(State, "+").previousValue = Zero

====
